---- MODULE Spec2Model ----
(***************************************************************************)
(* Ticket service: the gRPC dispatcher (ticket-service-db/main.go) on top  *)
(* of the PostgreSQL repository (database/postgres.go).                    *)
(*                                                                         *)
(* Every inbound call runs on its own goroutine.  A call touches shared    *)
(* state only through the wall clock (time.Now) and through one SQL        *)
(* statement, which the store executes atomically; the steps of a call     *)
(* are therefore its clock reads and its statement.  A statement either    *)
(* executes and reports its result, or the driver reports a failure and    *)
(* the statement has had no effect.                                        *)
(***************************************************************************)
EXTENDS Integers, Sequences, FiniteSets, TLC

VARIABLES store, clock, issued, known, calls, resp, ncalls, deleted

vars == <<store, clock, issued, known, calls, resp, ncalls, deleted>>

----------------------------------------------------------------------------
(* Bounds of the exploration *)

MaxTickets == 2
MaxClock == 2
MaxCalls == 3
MaxRows == 101

Procs == {"w1", "w2"}

(* An id no uuid.New() call ever returns: what a client sends to ask for a
   ticket that does not exist. *)
MissingID == 0

----------------------------------------------------------------------------
(* Go values *)

(* A []string: the nil slice, or a slice of elements. *)
NilSlice == [isNil |-> TRUE, elems |-> <<>>]

Slice(elems) == [isNil |-> FALSE, elems |-> elems]

GoLen(s) == Len(s.elems)

(* What a []string looks like on the wire: nil and empty are the same. *)
WireTags(s) == s.elems

(* A repeated field as protobuf decodes it: nil when it has no element. *)
Decoded(elems) == IF elems = <<>> THEN NilSlice ELSE Slice(elems)

(* sql.NullString *)
NullString == [Valid |-> FALSE, String |-> ""]

ValidString(s) == [Valid |-> TRUE, String |-> s]

----------------------------------------------------------------------------
(* encoding/json on []string, and the JSONB column.  A JSON text is a
   sequence of characters; a tag is a sequence of characters too. *)

QUOTE == "\""

BACKSLASH == "\\"

(* The characters of a string between quotes, none escaped. *)
EscapeNothing(s) == s

RECURSIVE EscapeString(_)
EscapeString(s) ==
  IF s = <<>> THEN <<>>
  ELSE (IF Head(s) \in {QUOTE, BACKSLASH} THEN <<BACKSLASH, Head(s)>> ELSE <<Head(s)>>)
       \o EscapeString(Tail(s))

QuoteString(s) == <<QUOTE>> \o EscapeString(s) \o <<QUOTE>>

RECURSIVE JoinElems(_, _)
JoinElems(elems, sep) ==
  IF elems = <<>> THEN <<>>
  ELSE IF Len(elems) = 1 THEN QuoteString(Head(elems))
  ELSE QuoteString(Head(elems)) \o sep \o JoinElems(Tail(elems), sep)

NullText == <<"n", "u", "l", "l">>

(* json.Marshal([]string): a nil slice encodes as null, any other as an
   array of quoted strings separated by commas. *)
Marshal(tags) ==
  IF tags.isNil THEN NullText
  ELSE <<"[">> \o JoinElems(tags.elems, <<",">>) \o <<"]">>

(* The decoder.  ParseString reads the characters after an opening quote and
   returns the decoded string and the rest of the text. *)
RECURSIVE ParseString(_, _)
ParseString(text, acc) ==
  IF text = <<>> THEN [ok |-> FALSE, val |-> acc, rest |-> <<>>]
  ELSE IF Head(text) = QUOTE THEN [ok |-> TRUE, val |-> acc, rest |-> Tail(text)]
  ELSE IF Head(text) = BACKSLASH
       THEN IF Len(text) < 2 \/ text[2] \notin {QUOTE, BACKSLASH}
            THEN [ok |-> FALSE, val |-> acc, rest |-> <<>>]
            ELSE ParseString(Tail(Tail(text)), Append(acc, text[2]))
  ELSE ParseString(Tail(text), Append(acc, Head(text)))

RECURSIVE SkipSpace(_)
SkipSpace(text) ==
  IF text # <<>> /\ Head(text) = " " THEN SkipSpace(Tail(text)) ELSE text

(* ParseElems reads the elements of an array after its opening bracket;
   first is TRUE until an element has been read. *)
RECURSIVE ParseElems(_, _, _)
ParseElems(text0, acc, first) ==
  LET text == SkipSpace(text0) IN
  IF text = <<>> THEN [ok |-> FALSE, val |-> acc]
  ELSE IF Head(text) = "]" /\ first
       THEN [ok |-> SkipSpace(Tail(text)) = <<>>, val |-> acc]
  ELSE IF Head(text) = QUOTE
       THEN LET s == ParseString(Tail(text), <<>>)
                after == SkipSpace(s.rest)
            IN  IF ~s.ok \/ after = <<>> THEN [ok |-> FALSE, val |-> acc]
                ELSE IF Head(after) = ","
                     THEN LET more == SkipSpace(Tail(after))
                          IN  IF more # <<>> /\ Head(more) = QUOTE
                              THEN ParseElems(more, Append(acc, s.val), FALSE)
                              ELSE [ok |-> FALSE, val |-> acc]
                ELSE IF Head(after) = "]"
                     THEN [ok |-> SkipSpace(Tail(after)) = <<>>, val |-> Append(acc, s.val)]
                ELSE [ok |-> FALSE, val |-> acc]
  ELSE [ok |-> FALSE, val |-> acc]

(* json.Unmarshal(text, &tags) with tags the zero value (nil): null leaves
   the slice nil, an array yields its elements (an empty array the empty,
   non-nil slice). *)
Unmarshal(text0) ==
  LET text == SkipSpace(text0) IN
  IF text = NullText THEN [ok |-> TRUE, val |-> NilSlice]
  ELSE IF text # <<>> /\ Head(text) = "["
       THEN LET parsed == ParseElems(Tail(text), <<>>, TRUE)
            IN  [ok |-> parsed.ok, val |-> Slice(parsed.val)]
  ELSE [ok |-> FALSE, val |-> NilSlice]

(* The tags column is JSONB: the store keeps the parsed value and renders it
   in its own form when read, elements separated by a comma and a space. *)
JsonbText(text) ==
  LET parsed == Unmarshal(text) IN
  IF parsed.val.isNil THEN NullText
  ELSE <<"[">> \o JoinElems(parsed.val.elems, <<",", " ">>) \o <<"]">>

----------------------------------------------------------------------------
(* Enum conversions of the dispatcher.  A wire enum is its generated Go
   constant; TICKET_STATUS_99 and TICKET_PRIORITY_99 stand for numbers
   outside the declared range, which proto3 delivers unchanged. *)

StatusUnspecified == "TICKET_STATUS_UNSPECIFIED"

PriorityUnspecified == "TICKET_PRIORITY_UNSPECIFIED"

convertStatusToProto(status) ==
  CASE status = "OPEN" -> "TICKET_STATUS_OPEN"
    [] status = "IN_PROGRESS" -> "TICKET_STATUS_IN_PROGRESS"
    [] status = "RESOLVED" -> "TICKET_STATUS_RESOLVED"
    [] status = "CLOSED" -> "TICKET_STATUS_CLOSED"
    [] OTHER -> "TICKET_STATUS_OPEN"

convertPriorityToProto(priority) ==
  CASE priority = "LOW" -> "TICKET_PRIORITY_LOW"
    [] priority = "MEDIUM" -> "TICKET_PRIORITY_MEDIUM"
    [] priority = "HIGH" -> "TICKET_PRIORITY_HIGH"
    [] priority = "CRITICAL" -> "TICKET_PRIORITY_CRITICAL"
    [] OTHER -> "TICKET_PRIORITY_MEDIUM"

(* convertStatusFromProto with a default branch that hands the wire value
   on as it came. *)
convertStatusVerbatim(status) ==
  CASE status = "TICKET_STATUS_OPEN" -> "OPEN"
    [] status = "TICKET_STATUS_IN_PROGRESS" -> "IN_PROGRESS"
    [] status = "TICKET_STATUS_RESOLVED" -> "RESOLVED"
    [] status = "TICKET_STATUS_CLOSED" -> "CLOSED"
    [] OTHER -> status

convertStatusFromProto(status) ==
  CASE status = "TICKET_STATUS_OPEN" -> "OPEN"
    [] status = "TICKET_STATUS_IN_PROGRESS" -> "IN_PROGRESS"
    [] status = "TICKET_STATUS_RESOLVED" -> "RESOLVED"
    [] status = "TICKET_STATUS_CLOSED" -> "CLOSED"
    [] OTHER -> "OPEN"

(* convertPriorityFromProto without its default branch's value: an
   unlisted number gives the zero string. *)
convertPriorityNoDefault(priority) ==
  CASE priority = "TICKET_PRIORITY_LOW" -> "LOW"
    [] priority = "TICKET_PRIORITY_MEDIUM" -> "MEDIUM"
    [] priority = "TICKET_PRIORITY_HIGH" -> "HIGH"
    [] priority = "TICKET_PRIORITY_CRITICAL" -> "CRITICAL"
    [] OTHER -> ""

convertPriorityFromProto(priority) ==
  CASE priority = "TICKET_PRIORITY_LOW" -> "LOW"
    [] priority = "TICKET_PRIORITY_MEDIUM" -> "MEDIUM"
    [] priority = "TICKET_PRIORITY_HIGH" -> "HIGH"
    [] priority = "TICKET_PRIORITY_CRITICAL" -> "CRITICAL"
    [] OTHER -> "MEDIUM"

(* dbTicketToProto: a database.Ticket in wire form.  ReporterId is never
   filled in. *)
dbTicketToProto(dbTicket) ==
  [Id |-> dbTicket.ID,
   Title |-> dbTicket.Title,
   Description |-> IF dbTicket.Description.Valid THEN dbTicket.Description.String ELSE "",
   Status |-> convertStatusToProto(dbTicket.Status),
   Priority |-> convertPriorityToProto(dbTicket.Priority),
   AssigneeId |-> IF dbTicket.AssigneeID.Valid THEN dbTicket.AssigneeID.String ELSE "",
   Tags |-> WireTags(dbTicket.Tags),
   CreatedAt |-> dbTicket.CreatedAt,
   UpdatedAt |-> dbTicket.UpdatedAt]

----------------------------------------------------------------------------
(* The tickets table: store maps the id of each row to its other columns. *)

Columns == {"title", "description", "status", "priority", "assignee_id", "tags",
            "created_at", "updated_at", "reporter_id"}

(* The row INSERT writes for a database.Ticket. *)
RowOf(ticket) ==
  [title |-> ticket.Title,
   description |-> ticket.Description,
   status |-> ticket.Status,
   priority |-> ticket.Priority,
   assignee_id |-> ticket.AssigneeID,
   tags |-> JsonbText(Marshal(ticket.Tags)),
   created_at |-> ticket.CreatedAt,
   updated_at |-> ticket.UpdatedAt,
   reporter_id |-> ticket.ReporterID]

(* Scan of the nine selected columns into a database.Ticket, then the
   decoding of the tags column.  reporter_id is not selected. *)
ScanTicket(id, row) ==
  LET decoded == IF row.tags # <<>> THEN Unmarshal(row.tags)
                 ELSE [ok |-> TRUE, val |-> NilSlice]
  IN  [ok |-> decoded.ok,
       err |-> IF decoded.ok THEN "" ELSE "failed to unmarshal tags from JSON",
       ticket |-> [ID |-> id,
                   Title |-> row.title,
                   Description |-> row.description,
                   Status |-> row.status,
                   Priority |-> row.priority,
                   AssigneeID |-> row.assignee_id,
                   Tags |-> decoded.val,
                   CreatedAt |-> row.created_at,
                   UpdatedAt |-> row.updated_at,
                   ReporterID |-> ""]]

(* Outcome of a repository method: the store it leaves, and either a ticket
   (tickets for List) or an error message. *)
Failed(st, msg) == [store |-> st, ok |-> FALSE, err |-> msg, tickets |-> <<>>]

Returned(st, tickets) == [store |-> st, ok |-> TRUE, err |-> "", tickets |-> tickets]

(* A DELETE that reports its row affected and leaves it in the table. *)
WithoutRowKept(st, id) == st

WithoutRow(st, id) == [i \in DOMAIN st \ {id} |-> st[i]]

WithRow(st, id, row) == [i \in DOMAIN st \cup {id} |-> IF i = id THEN row ELSE st[i]]

(* TicketRepository.Create.  fault: the driver reports a failure. *)
Create(st, ticket, fault) ==
  IF fault \/ ticket.ID \in DOMAIN st
  THEN Failed(st, "failed to create ticket")
  ELSE Returned(WithRow(st, ticket.ID, RowOf(ticket)), <<ticket>>)

(* GetByID without the sql.ErrNoRows branch: no row, no error. *)
GetByIDNoRowsUnchecked(st, id, fault) ==
  IF fault THEN Failed(st, "failed to get ticket")
  ELSE IF id \notin DOMAIN st THEN Returned(st, <<>>)
  ELSE LET scanned == ScanTicket(id, st[id])
       IN  IF scanned.ok THEN Returned(st, <<scanned.ticket>>)
           ELSE Failed(st, scanned.err)

(* TicketRepository.GetByID *)
GetByID(st, id, fault) ==
  IF fault THEN Failed(st, "failed to get ticket")
  ELSE IF id \notin DOMAIN st THEN Failed(st, "ticket not found")
  ELSE LET scanned == ScanTicket(id, st[id])
       IN  IF scanned.ok THEN Returned(st, <<scanned.ticket>>)
           ELSE Failed(st, scanned.err)

(* Delete without the RowsAffected check. *)
DeleteRowsUnchecked(st, id, fault) ==
  IF fault THEN Failed(st, "failed to delete ticket")
  ELSE Returned(WithoutRow(st, id), <<>>)

(* TicketRepository.Delete *)
Delete(st, id, fault) ==
  IF fault THEN Failed(st, "failed to delete ticket")
  ELSE IF id \notin DOMAIN st THEN Failed(st, "ticket not found")
  ELSE Returned(WithoutRow(st, id), <<>>)

(* The orders in which the elements of a set can come: those in which
   ranging over a map can yield its keys. *)
RECURSIVE Orders(_)
Orders(keys) ==
  IF keys = {} THEN {<<>>}
  ELSE UNION {{<<k>> \o rest : rest \in Orders(keys \ {k})} : k \in keys}

(* TicketRepository.Update, the statement builder: the loop over the updates
   map, taken in the order the map iteration yields its keys.  Each
   recognized key adds "col = $argIndex" and its argument; any other key
   adds nothing. *)
RECURSIVE BuildSetCountsEveryKey(_, _, _)
BuildSetCountsEveryKey(updates, order, acc) ==
  IF order = <<>> THEN acc
  ELSE LET field == Head(order)
           value == updates[field]
       IN  IF field \in {"title", "description", "status", "priority", "assignee_id"}
           THEN BuildSetCountsEveryKey(updates, Tail(order),
                  [setParts |-> Append(acc.setParts, [col |-> field, idx |-> acc.argIndex]),
                   args |-> Append(acc.args, value),
                   argIndex |-> acc.argIndex + 1])
           ELSE IF field = "tags"
           THEN BuildSetCountsEveryKey(updates, Tail(order),
                  [setParts |-> Append(acc.setParts, [col |-> "tags", idx |-> acc.argIndex]),
                   args |-> Append(acc.args, Marshal(value)),
                   argIndex |-> acc.argIndex + 1])
           ELSE BuildSetCountsEveryKey(updates, Tail(order),
                  [acc EXCEPT !.argIndex = acc.argIndex + 1])

RECURSIVE BuildSet(_, _, _)
BuildSet(updates, order, acc) ==
  IF order = <<>> THEN acc
  ELSE LET field == Head(order)
           value == updates[field]
       IN  IF field \in {"title", "description", "status", "priority", "assignee_id"}
           THEN BuildSet(updates, Tail(order),
                  [setParts |-> Append(acc.setParts, [col |-> field, idx |-> acc.argIndex]),
                   args |-> Append(acc.args, value),
                   argIndex |-> acc.argIndex + 1])
           ELSE IF field = "tags"
           THEN BuildSet(updates, Tail(order),
                  [setParts |-> Append(acc.setParts, [col |-> "tags", idx |-> acc.argIndex]),
                   args |-> Append(acc.args, Marshal(value)),
                   argIndex |-> acc.argIndex + 1])
           ELSE BuildSet(updates, Tail(order), acc)

(* The rest of the builder: updated_at takes the next parameter and the
   WHERE id the one after. *)
UpdateStatement(id, updates, order, now) ==
  LET built == BuildSet(updates, order, [setParts |-> <<>>, args |-> <<>>, argIndex |-> 1])
  IN  [setParts |-> Append(built.setParts, [col |-> "updated_at", idx |-> built.argIndex]),
       whereIdx |-> built.argIndex + 1,
       args |-> built.args \o <<now, id>>,
       empty |-> Len(built.setParts) = 0]

(* What a column holds after "col = $n" with argument v: a Go string makes
   a nullable text column non-null, JSONB parses its text. *)
ColumnValue(col, v) ==
  IF col \in {"description", "assignee_id"} THEN ValidString(v)
  ELSE IF col = "tags" THEN JsonbText(v)
  ELSE v

RECURSIVE Assign(_, _, _)
Assign(row, setParts, args) ==
  IF setParts = <<>> THEN row
  ELSE Assign([row EXCEPT ![Head(setParts).col] = ColumnValue(Head(setParts).col, args[Head(setParts).idx])],
              Tail(setParts), args)

(* The UPDATE without its WHERE clause: every row is assigned. *)
ExecUpdateAllRows(st, stmt) ==
  LET id == stmt.args[stmt.whereIdx]
  IN  IF id \in DOMAIN st
      THEN [store |-> [i \in DOMAIN st |-> Assign(st[i], stmt.setParts, stmt.args)], rows |-> <<id>>]
      ELSE [store |-> st, rows |-> <<>>]

(* UPDATE tickets SET ... WHERE id = $whereIdx RETURNING ... : the store it
   leaves and the row it returns, if one matched. *)
ExecUpdate(st, stmt) ==
  LET id == stmt.args[stmt.whereIdx]
  IN  IF id \in DOMAIN st
      THEN [store |-> [st EXCEPT ![id] = Assign(st[id], stmt.setParts, stmt.args)], rows |-> <<id>>]
      ELSE [store |-> st, rows |-> <<>>]

(* Update without the early return for an empty SET list. *)
UpdateAlwaysExecutes(st, id, updates, order, now, fault) ==
  LET stmt == UpdateStatement(id, updates, order, now)
  IN  IF fault THEN Failed(st, "failed to update ticket")
      ELSE LET done == ExecUpdate(st, stmt)
           IN  IF done.rows = <<>> THEN Failed(st, "ticket not found")
               ELSE LET scanned == ScanTicket(done.rows[1], done.store[done.rows[1]])
                    IN  IF scanned.ok THEN Returned(done.store, <<scanned.ticket>>)
                        ELSE Failed(done.store, scanned.err)

(* Update answering with the row as a read before the statement found
   it. *)
UpdateReturnsRowBefore(st, id, updates, order, now, fault) ==
  LET stmt == UpdateStatement(id, updates, order, now)
  IN  IF stmt.empty THEN GetByID(st, id, fault)
      ELSE IF fault THEN Failed(st, "failed to update ticket")
      ELSE LET done == ExecUpdate(st, stmt)
           IN  IF done.rows = <<>> THEN Failed(st, "ticket not found")
               ELSE LET scanned == ScanTicket(done.rows[1], st[done.rows[1]])
                    IN  IF scanned.ok THEN Returned(done.store, <<scanned.ticket>>)
                        ELSE Failed(done.store, scanned.err)

(* TicketRepository.Update.  now is the time.Now() the builder read. *)
Update(st, id, updates, order, now, fault) ==
  LET stmt == UpdateStatement(id, updates, order, now)
  IN  IF stmt.empty THEN GetByID(st, id, fault)
      ELSE IF fault THEN Failed(st, "failed to update ticket")
      ELSE LET done == ExecUpdate(st, stmt)
           IN  IF done.rows = <<>> THEN Failed(st, "ticket not found")
               ELSE LET scanned == ScanTicket(done.rows[1], done.store[done.rows[1]])
                    IN  IF scanned.ok THEN Returned(done.store, <<scanned.ticket>>)
                        ELSE Failed(done.store, scanned.err)

(* ORDER BY created_at without DESC: the rows stamped before t come
   first. *)
ComesFirstAscending(createdAt, t) == createdAt < t

(* ORDER BY created_at DESC: of the rows stamped t or later and the rows
   stamped before t, the former come first. *)
ComesFirst(createdAt, t) == createdAt >= t

(* The orders in which the statement can deliver the rows S: newest first,
   rows with equal created_at in any order. *)
RECURSIVE Ordered(_, _)
Ordered(st, S) ==
  IF S = {} THEN {<<>>}
  ELSE LET times == {st[i].created_at : i \in S}
           lo == CHOOSE t \in times : \A u \in times : t <= u
           hi == CHOOSE t \in times : \A u \in times : u <= t
       IN  IF lo = hi THEN Orders(S)
           ELSE LET first == {i \in S : ComesFirst(st[i].created_at, (lo + hi + 1) \div 2)}
                IN  {a \o b : a \in Ordered(st, first), b \in Ordered(st, S \ first)}

(* ORDER BY created_at DESC LIMIT k: the ids of the first k rows. *)
OrderedIDs(st, k) ==
  {SubSeq(ids, 1, IF k < Len(ids) THEN k ELSE Len(ids)) : ids \in Ordered(st, DOMAIN st)}

(* The loop over rows.Next(): each row scanned and decoded in turn, up to
   the first that fails. *)
ScanAll(st, ids) ==
  LET bad == {k \in 1..Len(ids) : ~ScanTicket(ids[k], st[ids[k]]).ok}
  IN  IF bad # {}
      THEN LET k == CHOOSE x \in bad : \A y \in bad : x <= y
           IN  [ok |-> FALSE, err |-> ScanTicket(ids[k], st[ids[k]]).err, tickets |-> <<>>]
      ELSE [ok |-> TRUE, err |-> "",
            tickets |-> IF ids = <<>> THEN <<>>
                        ELSE [k \in 1..Len(ids) |-> ScanTicket(ids[k], st[ids[k]]).ticket]]

(* TicketRepository.List: the outcomes the statement can have. *)
List(st, limit, offset, fault) ==
  IF fault THEN {Failed(st, "failed to list tickets")}
  ELSE {LET page == SubSeq(ids, offset + 1, Len(ids))
            scanned == ScanAll(st, page)
        IN  IF scanned.ok THEN Returned(st, scanned.tickets) ELSE Failed(st, scanned.err)
        : ids \in OrderedIDs(st, limit + offset)}

----------------------------------------------------------------------------
(* The dispatcher *)

(* The ticket with the two time.Now() readings in each other's place. *)
NewTicketStampsSwapped(req, id, createdAt, updatedAt) ==
  [ID |-> id,
   CreatedAt |-> updatedAt,
   UpdatedAt |-> createdAt,
   Title |-> req.Title,
   Status |-> "OPEN",
   Priority |-> convertPriorityFromProto(req.Priority),
   Tags |-> req.Tags,
   ReporterID |-> req.ReporterId,
   Description |-> IF req.Description # "" THEN ValidString(req.Description) ELSE NullString,
   AssigneeID |-> IF req.AssigneeId # "" THEN ValidString(req.AssigneeId) ELSE NullString]

(* CreateTicket, the database.Ticket it builds. *)
NewTicket(req, id, createdAt, updatedAt) ==
  [ID |-> id,
   CreatedAt |-> createdAt,
   UpdatedAt |-> updatedAt,
   Title |-> req.Title,
   Status |-> "OPEN",
   Priority |-> convertPriorityFromProto(req.Priority),
   Tags |-> req.Tags,
   ReporterID |-> req.ReporterId,
   Description |-> IF req.Description # "" THEN ValidString(req.Description) ELSE NullString,
   AssigneeID |-> IF req.AssigneeId # "" THEN ValidString(req.AssigneeId) ELSE NullString]

(* The limit without the upper bound on the page size. *)
LimitWithoutUpperBound(pageSize) == IF pageSize <= 0 THEN 50 ELSE pageSize

(* ListTickets, the limit it passes on. *)
EffectiveLimit(pageSize) == IF pageSize <= 0 \/ pageSize > 100 THEN 50 ELSE pageSize

(* UpdateTicket without the test of req.Description: the key is set
   whatever the string. *)
PresentFieldsDescriptionAlways(req) ==
  {f \in {"title"} : req.Title # ""}
  \cup {"description"}
  \cup {f \in {"status"} : req.Status # StatusUnspecified}
  \cup {f \in {"priority"} : req.Priority # PriorityUnspecified}
  \cup {f \in {"assignee_id"} : req.AssigneeId # ""}
  \cup {f \in {"tags"} : GoLen(req.Tags) > 0}

(* UpdateTicket, the keys of the updates map it builds. *)
PresentFields(req) ==
  {f \in {"title"} : req.Title # ""}
  \cup {f \in {"description"} : req.Description # ""}
  \cup {f \in {"status"} : req.Status # StatusUnspecified}
  \cup {f \in {"priority"} : req.Priority # PriorityUnspecified}
  \cup {f \in {"assignee_id"} : req.AssigneeId # ""}
  \cup {f \in {"tags"} : GoLen(req.Tags) > 0}

(* UpdateTicket, the updates map. *)
BuildUpdates(req) ==
  [f \in PresentFields(req) |->
     CASE f = "title" -> req.Title
       [] f = "description" -> req.Description
       [] f = "status" -> convertStatusFromProto(req.Status)
       [] f = "priority" -> convertPriorityFromProto(req.Priority)
       [] f = "assignee_id" -> req.AssigneeId
       [] f = "tags" -> req.Tags]

(* TicketRepository.Update reads time.Now() only when some key is
   recognized; NoTime stands for no reading. *)
NoTime == -1

Recognized == {"title", "description", "status", "priority", "assignee_id", "tags"}

(* The dispatcher's conversion of each ticket the repository returned. *)
MapToProto(tickets) ==
  IF tickets = <<>> THEN <<>>
  ELSE [k \in 1..Len(tickets) |-> dbTicketToProto(tickets[k])]

(* The status code under which the error a handler returned reaches the
   caller.  GetTicket and UpdateTicket return the repository's error as it
   is, a plain fmt.Errorf value and never a status error of the transport,
   so whatever its message it travels as Unknown. *)
StatusCode(err) == IF err = "" THEN "OK" ELSE "Unknown"

----------------------------------------------------------------------------
(* State *)

Idle == [pc |-> "idle"]

NoResp == [op |-> "none"]

(* The answer a call gives: err is the error the transport reports ("" for
   none), logged the repository error the dispatcher logs, repo the tickets
   the repository returned and tickets their wire form. *)
Response(p, op, req, out) ==
  [op |-> op, proc |-> p, req |-> req,
   err |-> IF op = "DeleteTicket" THEN "" ELSE out.err,
   logged |-> out.err,
   success |-> op = "DeleteTicket" /\ out.ok,
   repo |-> out.tickets,
   tickets |-> IF op = "Update" THEN <<>> ELSE
               IF op = "DeleteTicket" THEN <<>> ELSE MapToProto(out.tickets)]

Init ==
  /\ store = <<>>
  /\ clock = 0
  /\ issued = 0
  /\ known = {}
  /\ calls = [p \in Procs |-> Idle]
  /\ resp = NoResp
  /\ ncalls = 0
  /\ deleted = <<>>

(* Ids a client can name: those some response has shown, and one that was
   never issued.  uuid.New() ids cannot be named before they are shown. *)
Nameable == known \cup {MissingID}

CanCall(p) == calls[p].pc = "idle" /\ ncalls < MaxCalls

Begin(p, call) ==
  /\ calls' = [calls EXCEPT ![p] = call]
  /\ ncalls' = ncalls + 1
  /\ resp' = NoResp

(* The clock after a statement has run: the round trip to the database
   takes longer than the resolution of a stored timestamp, so a time.Now()
   read after a statement has answered is later than every read before it
   was sent. *)
Elapsed == clock + 1

(* The wall clock moves on. *)
Tick ==
  /\ clock < MaxClock
  /\ clock' = clock + 1
  /\ resp' = NoResp
  /\ UNCHANGED <<store, issued, known, calls, ncalls, deleted>>

(* CreateTicket up to CreatedAt: uuid.New() and the first time.Now(). *)
CreateTicket(p, req) ==
  /\ CanCall(p)
  /\ issued < MaxTickets
  /\ issued' = issued + 1
  /\ Begin(p, [pc |-> "create_stamp", op |-> "CreateTicket", req |-> req,
               ID |-> issued + 1, CreatedAt |-> clock])
  /\ UNCHANGED <<store, clock, known, deleted>>

(* CreateTicket, UpdatedAt: the second time.Now(). *)
CreateStamp(p) ==
  /\ calls[p].pc = "create_stamp"
  /\ calls' = [calls EXCEPT ![p] =
                 [pc |-> "create_exec", op |-> "CreateTicket", req |-> calls[p].req,
                  ticket |-> NewTicket(calls[p].req, calls[p].ID, calls[p].CreatedAt, clock)]]
  /\ resp' = NoResp
  /\ UNCHANGED <<store, clock, issued, known, ncalls, deleted>>

(* CreateTicket, the INSERT and the response. *)
CreateExec(p, fault) ==
  /\ calls[p].pc = "create_exec"
  /\ LET out == Create(store, calls[p].ticket, fault)
     IN  /\ store' = out.store
         /\ known' = IF out.ok THEN known \cup {calls[p].ticket.ID} ELSE known
         /\ resp' = Response(p, "CreateTicket", calls[p].req, out)
  /\ calls' = [calls EXCEPT ![p] = Idle]
  /\ clock' = Elapsed
  /\ UNCHANGED <<issued, ncalls, deleted>>

(* GetTicket *)
GetTicket(p, id, fault) ==
  /\ CanCall(p)
  /\ ncalls' = ncalls + 1
  /\ resp' = Response(p, "GetTicket", [Id |-> id], GetByID(store, id, fault))
  /\ clock' = Elapsed
  /\ UNCHANGED <<store, issued, known, calls, deleted>>

(* ListTickets *)
ListTickets(p, pageSize, fault) ==
  /\ CanCall(p)
  /\ ncalls' = ncalls + 1
  /\ \E out \in List(store, EffectiveLimit(pageSize), 0, fault) :
       resp' = Response(p, "ListTickets", [PageSize |-> pageSize], out)
  /\ clock' = Elapsed
  /\ UNCHANGED <<store, issued, known, calls, deleted>>

(* UpdateTicket up to the statement: the updates map and time.Now(). *)
UpdateTicket(p, req) ==
  /\ CanCall(p)
  /\ LET updates == BuildUpdates(req)
     IN  Begin(p, [pc |-> "update_exec", op |-> "UpdateTicket", req |-> req,
                   id |-> req.Id, updates |-> updates,
                   now |-> IF DOMAIN updates \cap Recognized # {} THEN clock ELSE NoTime])
  /\ UNCHANGED <<store, clock, issued, known, deleted>>

(* TicketRepository.Update called with a map of the caller's own. *)
UpdateCall(p, id, updates) ==
  /\ CanCall(p)
  /\ Begin(p, [pc |-> "update_exec", op |-> "Update", req |-> [Id |-> id, updates |-> updates],
               id |-> id, updates |-> updates,
               now |-> IF DOMAIN updates \cap Recognized # {} THEN clock ELSE NoTime])
  /\ UNCHANGED <<store, clock, issued, known, deleted>>

(* The UPDATE statement (or the plain read, for an empty SET list) and the
   response. *)
UpdateExec(p, order, fault) ==
  /\ calls[p].pc = "update_exec"
  /\ Len(order) = Cardinality(DOMAIN calls[p].updates)
  /\ {order[i] : i \in 1..Len(order)} = DOMAIN calls[p].updates
  /\ LET out == Update(store, calls[p].id, calls[p].updates, order, calls[p].now, fault)
     IN  /\ store' = out.store
         /\ resp' = Response(p, calls[p].op, calls[p].req, out)
  /\ calls' = [calls EXCEPT ![p] = Idle]
  /\ clock' = Elapsed
  /\ UNCHANGED <<issued, known, ncalls, deleted>>

(* DeleteTicket, the request received. *)
DeleteTicket(p, id) ==
  /\ CanCall(p)
  /\ Begin(p, [pc |-> "delete_exec", op |-> "DeleteTicket", req |-> [Id |-> id], id |-> id])
  /\ UNCHANGED <<store, clock, issued, known, deleted>>

(* DeleteTicket, the DELETE statement and the response.  deleted counts the
   success=true answers given for each id. *)
DeleteExec(p, fault) ==
  /\ calls[p].pc = "delete_exec"
  /\ LET out == Delete(store, calls[p].id, fault)
         id == calls[p].id
     IN  /\ store' = out.store
         /\ resp' = Response(p, "DeleteTicket", calls[p].req, out)
         /\ deleted' = IF ~out.ok THEN deleted
                       ELSE IF id \in DOMAIN deleted THEN [deleted EXCEPT ![id] = @ + 1]
                       ELSE WithRow(deleted, id, 1)
  /\ calls' = [calls EXCEPT ![p] = Idle]
  /\ clock' = Elapsed
  /\ UNCHANGED <<issued, known, ncalls>>

----------------------------------------------------------------------------
(* Requests *)

TagA == <<"a">>

TagB == <<QUOTE, ",">>

TagC == <<BACKSLASH, "]">>

Req(description, priority, assignee, tags) ==
  [Title |-> "t1", Description |-> description, Priority |-> priority,
   AssigneeId |-> assignee, Tags |-> Decoded(tags), ReporterId |-> "r1"]

CreateRequests ==
  { Req("d1", "TICKET_PRIORITY_HIGH", "u1", <<TagA, TagB>>) }

Upd(id, title, description, status, priority, assignee, tags) ==
  [Id |-> id, Title |-> title, Description |-> description, Status |-> status,
   Priority |-> priority, AssigneeId |-> assignee, Tags |-> Decoded(tags)]

UpdateRequests ==
  UNION {{ Upd(id, "", "", StatusUnspecified, PriorityUnspecified, "", <<>>),
           Upd(id, "t2", "", StatusUnspecified, PriorityUnspecified, "", <<>>),
           Upd(id, "", "d2", "TICKET_STATUS_IN_PROGRESS", PriorityUnspecified, "", <<TagC, TagA>>) }
         : id \in Nameable}

(* Maps handed to TicketRepository.Update directly: some of their keys are
   no column of the builder's switch. *)
UpdateMaps ==
  { [f \in {"reporter_id"} |-> "r2"],
    [f \in {"title", "reporter_id"} |-> IF f = "title" THEN "t3" ELSE "r2"] }

PageSizes == {0, 1}

(* The keys of the updates map of the call p has pending. *)
PendingKeys(p) == IF calls[p].pc = "update_exec" THEN DOMAIN calls[p].updates ELSE {}

Next ==
  \/ Tick
  \/ \E p \in Procs, req \in CreateRequests : CreateTicket(p, req)
  \/ \E p \in Procs : CreateStamp(p)
  \/ \E p \in Procs, fault \in BOOLEAN : CreateExec(p, fault)
  \/ \E p \in Procs, id \in Nameable, fault \in BOOLEAN : GetTicket(p, id, fault)
  \/ \E p \in Procs, pageSize \in PageSizes, fault \in BOOLEAN : ListTickets(p, pageSize, fault)
  \/ \E p \in Procs, req \in UpdateRequests : UpdateTicket(p, req)
  \/ \E p \in Procs : \E order \in Orders(PendingKeys(p)), fault \in BOOLEAN :
        UpdateExec(p, order, fault)
  \/ \E p \in Procs, id \in Nameable : DeleteTicket(p, id)
  \/ \E p \in Procs, fault \in BOOLEAN : DeleteExec(p, fault)

Spec == Init /\ [][Next]_vars

----------------------------------------------------------------------------
(* One worker; UpdateTicket with no field, each single field and two to
   five fields present, and Update with maps that hold unrecognized keys. *)

UpdateSweep ==
  UNION {{ Upd(id, "", "", StatusUnspecified, PriorityUnspecified, "", <<>>),
           Upd(id, "t2", "", StatusUnspecified, PriorityUnspecified, "", <<>>),
           Upd(id, "", "d2", StatusUnspecified, PriorityUnspecified, "", <<>>),
           Upd(id, "", "", "TICKET_STATUS_RESOLVED", PriorityUnspecified, "", <<>>),
           Upd(id, "", "", StatusUnspecified, "TICKET_PRIORITY_LOW", "", <<>>),
           Upd(id, "", "", StatusUnspecified, PriorityUnspecified, "u2", <<>>),
           Upd(id, "", "", StatusUnspecified, PriorityUnspecified, "", <<TagC, TagA>>),
           Upd(id, "t2", "", "TICKET_STATUS_99", PriorityUnspecified, "", <<>>),
           Upd(id, "", "d2", StatusUnspecified, PriorityUnspecified, "u2", <<TagC, TagA>>),
           Upd(id, "t2", "", "TICKET_STATUS_CLOSED", "TICKET_PRIORITY_99", "", <<TagA>>),
           Upd(id, "t2", "d2", "TICKET_STATUS_RESOLVED", "TICKET_PRIORITY_LOW", "", <<TagC, TagA>>) }
         : id \in known}

MapSweep ==
  UpdateMaps \cup
  { <<>>,
    [f \in {"id", "created_at"} |-> 1],
    [f \in {"tags"} |-> Slice(<<>>)],
    [f \in {"tags", "updated_at"} |-> IF f = "tags" THEN NilSlice ELSE 0] }

(* A failure of the statement gives the same outcome whatever the order of
   the keys: one order stands for all. *)
AnOrder(keys) == CHOOSE order \in Orders(keys) : TRUE

NextUpdate ==
  \/ Tick
  \/ \E req \in {Req("d1", "TICKET_PRIORITY_HIGH", "u1", <<TagA, TagB>>)} : CreateTicket("w1", req)
  \/ CreateStamp("w1")
  \/ \E fault \in BOOLEAN : CreateExec("w1", fault)
  \/ \E req \in UpdateSweep : UpdateTicket("w1", req)
  \/ \E id \in Nameable, updates \in MapSweep : UpdateCall("w1", id, updates)
  \/ \E order \in Orders(PendingKeys("w1")) : UpdateExec("w1", order, FALSE)
  \/ \E order \in {AnOrder(PendingKeys("w1"))} : UpdateExec("w1", order, TRUE)

SpecUpdate == Init /\ [][NextUpdate]_vars

----------------------------------------------------------------------------
(* One worker; CreateTicket over the priorities, the optional strings and
   tag lists, read back by GetTicket, with tags replaced by UpdateTicket. *)

CreateSweep ==
  { Req("", PriorityUnspecified, "", <<>>),
    Req("d1", "TICKET_PRIORITY_LOW", "", <<TagA>>),
    Req("", "TICKET_PRIORITY_MEDIUM", "u1", <<TagA, TagB>>),
    Req("d1", "TICKET_PRIORITY_HIGH", "u1", <<TagB, TagA, TagA>>),
    Req("", "TICKET_PRIORITY_CRITICAL", "", <<TagC, <<>>>>),
    Req("d1", "TICKET_PRIORITY_99", "u1", <<>>),
    Req("", "TICKET_PRIORITY_99", "", <<TagB>>) }

TagUpdates ==
  UNION {{ Upd(id, "", "", StatusUnspecified, PriorityUnspecified, "", <<TagB, TagC, TagB>>),
           Upd(id, "t2", "", StatusUnspecified, PriorityUnspecified, "", <<<<>>>>) }
         : id \in Nameable}

NextCreate ==
  \/ Tick
  \/ \E req \in CreateSweep : CreateTicket("w1", req)
  \/ CreateStamp("w1")
  \/ \E fault \in BOOLEAN : CreateExec("w1", fault)
  \/ \E id \in Nameable, fault \in BOOLEAN : GetTicket("w1", id, fault)
  \/ \E req \in TagUpdates : UpdateTicket("w1", req)
  \/ \E order \in Orders(IF calls["w1"].pc = "update_exec" THEN DOMAIN calls["w1"].updates ELSE {}),
        fault \in BOOLEAN : UpdateExec("w1", order, fault)

SpecCreate == Init /\ [][NextCreate]_vars

----------------------------------------------------------------------------
(* One worker; CreateTicket and UpdateTicket over the enum numbers of the
   wire: listed ones, the UNSPECIFIED sentinel and numbers no constant
   names. *)

EnumCreates ==
  { Req("", priority, "", <<>>) :
      priority \in {PriorityUnspecified, "TICKET_PRIORITY_CRITICAL", "TICKET_PRIORITY_99"} }

EnumUpdates ==
  { Upd(id, "", "", status, priority, "", <<>>) :
      id \in known,
      status \in {StatusUnspecified, "TICKET_STATUS_CLOSED", "TICKET_STATUS_99"},
      priority \in {PriorityUnspecified, "TICKET_PRIORITY_LOW", "TICKET_PRIORITY_99"} }

NextEnum ==
  \/ Tick
  \/ \E req \in EnumCreates : CreateTicket("w1", req)
  \/ CreateStamp("w1")
  \/ \E fault \in BOOLEAN : CreateExec("w1", fault)
  \/ \E req \in EnumUpdates : UpdateTicket("w1", req)
  \/ \E order \in Orders(PendingKeys("w1")), fault \in BOOLEAN : UpdateExec("w1", order, fault)

SpecEnum == Init /\ [][NextEnum]_vars

----------------------------------------------------------------------------
(* TicketRepository.Update up to its query text, for every set of
   recognized keys, alone and beside a key the switch does not know, in
   every order in which ranging over the map can yield them. *)

FieldValue(f) ==
  CASE f = "title" -> "t2"
    [] f = "description" -> "d2"
    [] f = "status" -> "RESOLVED"
    [] f = "priority" -> "LOW"
    [] f = "assignee_id" -> "u2"
    [] f = "tags" -> Slice(<<TagC, TagA>>)
    [] OTHER -> "r2"

BuildMaps ==
  { [f \in fields \cup other |-> FieldValue(f)] :
      fields \in SUBSET Recognized, other \in {{}, {"reporter_id"}, {"updated_at"}} }

InitBuild ==
  /\ store = <<>>
  /\ clock = MaxClock
  /\ issued = 0
  /\ known = {}
  /\ \E updates \in BuildMaps :
       calls = [p \in Procs |->
                  IF p = "w1"
                  THEN [pc |-> "update_exec", op |-> "Update",
                        req |-> [Id |-> MissingID, updates |-> updates],
                        id |-> MissingID, updates |-> updates,
                        now |-> IF DOMAIN updates \cap Recognized # {} THEN MaxClock ELSE NoTime]
                  ELSE Idle]
  /\ resp = NoResp
  /\ ncalls = 1
  /\ deleted = <<>>

(* The loop over the map and the trailing updated_at and id: the statement
   Update has ready when it calls QueryRowContext. *)
BuildStep(p, order) ==
  /\ calls[p].pc = "update_exec"
  /\ resp' = [op |-> "Build", proc |-> p, req |-> calls[p].req, order |-> order,
              now |-> calls[p].now,
              stmt |-> UpdateStatement(calls[p].id, calls[p].updates, order, calls[p].now)]
  /\ calls' = [calls EXCEPT ![p] = Idle]
  /\ UNCHANGED <<store, clock, issued, known, ncalls, deleted>>

NextBuild == \E order \in Orders(PendingKeys("w1")) : BuildStep("w1", order)

SpecBuild == InitBuild /\ [][NextBuild]_vars

----------------------------------------------------------------------------
(* Two workers updating one stored ticket, with requests that share some
   fields, under different values, and not others. *)

RaceTicket == NewTicket(Req("d1", "TICKET_PRIORITY_HIGH", "u1", <<TagA, TagB>>), 1, 0, 0)

RaceRequests(p) ==
  IF p = "w1"
  THEN { Upd(1, "tA", "dA", StatusUnspecified, PriorityUnspecified, "", <<TagA>>),
         Upd(1, "", "", "TICKET_STATUS_CLOSED", PriorityUnspecified, "", <<>>) }
  ELSE { Upd(1, "tB", "", StatusUnspecified, "TICKET_PRIORITY_LOW", "", <<TagC, TagA>>),
         Upd(1, "", "dB", "TICKET_STATUS_RESOLVED", PriorityUnspecified, "", <<>>) }

(* The state CreateTicket by w1 leaves when its INSERT has answered. *)
InitRace ==
  /\ store = Create(<<>>, RaceTicket, FALSE).store
  /\ clock = 1
  /\ issued = 1
  /\ known = {1}
  /\ calls = [p \in Procs |-> Idle]
  /\ resp = Response("w1", "CreateTicket",
                     Req("d1", "TICKET_PRIORITY_HIGH", "u1", <<TagA, TagB>>),
                     Create(<<>>, RaceTicket, FALSE))
  /\ ncalls = 1
  /\ deleted = <<>>

NextRace ==
  \/ Tick
  \/ \E p \in Procs : \E req \in RaceRequests(p) : UpdateTicket(p, req)
  \/ \E p \in Procs : \E order \in Orders(PendingKeys(p)), fault \in BOOLEAN :
        UpdateExec(p, order, fault)

SpecRace == InitRace /\ [][NextRace]_vars

----------------------------------------------------------------------------
(* ListTickets against tables of up to MaxRows rows, as that many
   CreateTicket calls at successive clock readings leave them. *)

RowCounts == {0, 1, 5, 49, 50, 51, 99, 100, MaxRows}

ListPageSizes == {-5, 0, 1, 10, 49, 50, 51, 100, 101, 1000}

InitList ==
  \E n \in RowCounts :
    /\ store = [i \in 1..n |-> RowOf(NewTicket(Req("", PriorityUnspecified, "", <<>>), i, i, i))]
    /\ clock = n
    /\ issued = n
    /\ known = 1..n
    /\ calls = [p \in Procs |-> Idle]
    /\ resp = NoResp
    /\ ncalls = 0
    /\ deleted = <<>>

NextList ==
  \E pageSize \in ListPageSizes, fault \in BOOLEAN : ListTickets("w1", pageSize, fault)

SpecList == InitList /\ [][NextList]_vars

----------------------------------------------------------------------------
(* Properties *)

(* The messages of the errors that report a failure of the store itself. *)
StorageFailures ==
  {"failed to create ticket", "failed to get ticket", "failed to list tickets",
   "failed to update ticket", "failed to delete ticket"}

(* The step is the statement of the update call worker p has pending. *)
UpdateStep(p) == calls[p].pc = "update_exec" /\ calls'[p].pc = "idle"

(* The recognized fields that call supplies. *)
Supplied(p) == DOMAIN calls[p].updates \cap Recognized

(* C1: partial update isolation.  A successful update that supplies a
   non-empty set S of recognized fields leaves the set of rows as it was,
   every other row as it was, and in its own row every column outside S but
   updated_at as it was (reporter_id and created_at among them); the
   supplied title, description, status, priority and assignee_id are stored
   as given and updated_at is the time the call read. *)
C1_PartialUpdateIsolation ==
  [][\A p \in Procs :
       (UpdateStep(p) /\ resp'.err = "" /\ Supplied(p) # {}) =>
         LET id == calls[p].id
             S == Supplied(p)
             updates == calls[p].updates
         IN  /\ DOMAIN store' = DOMAIN store
             /\ \A i \in DOMAIN store \ {id} : store'[i] = store[i]
             /\ \A c \in Columns \ (S \cup {"updated_at"}) : store'[id][c] = store[id][c]
             /\ \A c \in S \cap {"title", "status", "priority"} : store'[id][c] = updates[c]
             /\ \A c \in S \cap {"description", "assignee_id"} :
                  store'[id][c] = [Valid |-> TRUE, String |-> updates[c]]
             /\ store'[id].updated_at = calls[p].now]_vars

W1_PartialUpdate ==
  /\ resp.op = "UpdateTicket"
  /\ resp.err = ""
  /\ Cardinality(PresentFields(resp.req)) = 5
  /\ Cardinality(DOMAIN store) = 2
  /\ \E i \in DOMAIN store : store[i].updated_at < store[resp.req.Id].updated_at

(* C2: no-op update.  An update that supplies no recognized field leaves
   the store as it was, updated_at included, and answers what GetByID
   answers for that id. *)
C2_NoOpUpdate ==
  [][\A p \in Procs :
       (UpdateStep(p) /\ Supplied(p) = {}) =>
         /\ store' = store
         /\ \E fault \in BOOLEAN :
              LET got == GetByID(store, calls[p].id, fault)
              IN  /\ resp'.repo = got.tickets
                  /\ resp'.err = got.err
                  /\ resp'.op = "UpdateTicket" => resp'.tickets = MapToProto(got.tickets)]_vars

W2_NoOpUpdate ==
  /\ resp.op = "Update"
  /\ resp.err = ""
  /\ DOMAIN resp.req.updates = {"id", "created_at"}
  /\ Len(resp.repo) = 1
  /\ resp.repo[1].UpdatedAt < clock

(* C3: not-found propagation.  GetTicket and UpdateTicket for an id that has
   no row fail and return no ticket, the store stays as it was, and unless
   the store itself failed the error is "ticket not found". *)
C3_NotFound ==
  [][(resp'.op \in {"GetTicket", "UpdateTicket", "Update"} /\ resp'.req.Id \notin DOMAIN store) =>
       /\ store' = store
       /\ resp'.tickets = <<>>
       /\ resp'.repo = <<>>
       /\ resp'.err # ""
       /\ resp'.err \notin StorageFailures => resp'.err = "ticket not found"]_vars

W3_NotFound ==
  /\ resp.op = "UpdateTicket"
  /\ resp.err = "ticket not found"
  /\ PresentFields(resp.req) # {}
  /\ resp.req.Id \in known \ DOMAIN store

(* The step is the statement of the delete call worker p has pending. *)
DeleteStep(p) == calls[p].pc = "delete_exec" /\ calls'[p].pc = "idle"

(* C4: delete asymmetry.  DeleteTicket never reports a transport error; it
   answers success=true exactly when the row existed and this statement
   removed it, leaving every other row as it was; it answers success=false
   for an id without a row and for a failure of the store, and the store is
   then as it was.  No id gets success=true twice, and a call that finds no
   row for an id that once had one comes after the one call that got
   success=true: of two concurrent calls whose statements the store
   executes on an existing id, exactly one gets success=true. *)
C4_DeleteAsymmetry ==
  /\ [][\A p \in Procs :
          DeleteStep(p) =>
            LET id == calls[p].id
            IN  /\ resp'.op = "DeleteTicket"
                /\ resp'.err = ""
                /\ resp'.success <=>
                     /\ id \in DOMAIN store
                     /\ DOMAIN store' = DOMAIN store \ {id}
                     /\ \A i \in DOMAIN store' : store'[i] = store[i]
                /\ ~resp'.success => store' = store
                /\ ~resp'.success =>
                     \/ resp'.logged = "failed to delete ticket"
                     \/ id \notin DOMAIN store /\ (id \in known => id \in DOMAIN deleted)]_vars
  /\ [](\A id \in DOMAIN deleted : deleted[id] = 1 /\ id \notin DOMAIN store)

W4_ConcurrentDelete ==
  /\ resp.op = "DeleteTicket"
  /\ resp.success
  /\ \E q \in Procs \ {resp.proc} : calls[q].pc = "delete_exec" /\ calls[q].id = resp.req.Id

(* The tags GetTicket(id) answers from store st when the store executes its
   statement; NoTags when it answers no ticket. *)
NoTags == <<<<"no ticket">>>>

TagsRead(st, id) ==
  LET got == GetByID(st, id, FALSE)
  IN  IF got.ok THEN dbTicketToProto(got.tickets[1]).Tags ELSE NoTags

(* C5: tags round-trip.  Right after a successful CreateTicket with tags T,
   GetTicket of the returned id answers T, same elements in the same order;
   right after a successful update that supplies tags T it answers T; and
   what GetTicket answers is what the store holds. *)
C5_TagsRoundTrip ==
  /\ [][/\ (resp'.op = "CreateTicket" /\ resp'.err = "") =>
             /\ TagsRead(store', resp'.tickets[1].Id) = WireTags(resp'.req.Tags)
             /\ resp'.tickets[1].Tags = WireTags(resp'.req.Tags)
        /\ (resp'.op = "UpdateTicket" /\ resp'.err = "" /\ "tags" \in PresentFields(resp'.req)) =>
             /\ TagsRead(store', resp'.req.Id) = WireTags(resp'.req.Tags)
             /\ resp'.tickets[1].Tags = WireTags(resp'.req.Tags)
        /\ (resp'.op \notin {"CreateTicket", "UpdateTicket", "none"}) =>
             \A id \in DOMAIN store : TagsRead(store', id) = TagsRead(store, id)
        /\ (resp'.op = "GetTicket" /\ resp'.err = "") =>
             resp'.tickets[1].Tags = TagsRead(store, resp'.req.Id)]_vars

W5_TagsRoundTrip ==
  /\ resp.op = "GetTicket"
  /\ resp.err = ""
  /\ resp.tickets[1].Tags = <<TagB, TagC, TagB>>

(* The storage string of each declared priority. *)
PriorityNames ==
  [TICKET_PRIORITY_LOW |-> "LOW", TICKET_PRIORITY_MEDIUM |-> "MEDIUM",
   TICKET_PRIORITY_HIGH |-> "HIGH", TICKET_PRIORITY_CRITICAL |-> "CRITICAL"]

(* C6: default normalization on create.  The row a successful CreateTicket
   stores has status OPEN; its priority is the requested one when that is
   LOW, MEDIUM, HIGH or CRITICAL and MEDIUM otherwise; its description and
   assignee_id are NULL for an empty request string and the request string
   otherwise. *)
C6_DefaultNormalization ==
  [][(resp'.op = "CreateTicket" /\ resp'.err = "") =>
       LET req == resp'.req
           row == store'[resp'.tickets[1].Id]
       IN  /\ resp'.tickets[1].Id \notin DOMAIN store
           /\ row.status = "OPEN"
           /\ row.priority = IF req.Priority \in DOMAIN PriorityNames
                             THEN PriorityNames[req.Priority] ELSE "MEDIUM"
           /\ row.description = IF req.Description = "" THEN [Valid |-> FALSE, String |-> ""]
                                ELSE [Valid |-> TRUE, String |-> req.Description]
           /\ row.assignee_id = IF req.AssigneeId = "" THEN [Valid |-> FALSE, String |-> ""]
                                ELSE [Valid |-> TRUE, String |-> req.AssigneeId]]_vars

W6_DefaultNormalization ==
  /\ resp.op = "CreateTicket"
  /\ resp.err = ""
  /\ resp.req.Priority = "TICKET_PRIORITY_99"
  /\ resp.req.Description = "d1"
  /\ store[resp.tickets[1].Id].priority = "MEDIUM"
  /\ \E id \in DOMAIN store : store[id].priority = "CRITICAL" /\ ~store[id].description.Valid

Min(a, b) == IF a <= b THEN a ELSE b

(* C7: pagination bound.  When the store executes the list statement,
   ListTickets answers without error exactly min(n, number of rows) tickets,
   n being the requested page size when that lies in 1..100 and 50
   otherwise; with no row the answer is empty. *)
C7_PaginationBound ==
  (resp.op = "ListTickets" /\ resp.logged \notin StorageFailures) =>
    LET size == resp.req.PageSize
        n == IF size <= 0 \/ size > 100 THEN 50 ELSE size
    IN  /\ resp.err = ""
        /\ n \in 1..100
        /\ Len(resp.tickets) = Min(n, Cardinality(DOMAIN store))
        /\ Len(resp.tickets) <= 100

W7_PaginationBound ==
  /\ resp.op = "ListTickets"
  /\ resp.req.PageSize = 1000
  /\ Len(resp.tickets) = 50
  /\ Cardinality(DOMAIN store) > 100

(* C8: list ordering.  A ListTickets answer holds rows of the store as it
   is when the statement executes, each once, newest first by created_at;
   it is the first page: as many rows as the limit allows, and no row left
   out is newer than a row in it. *)
C8_ListOrdering ==
  (resp.op = "ListTickets" /\ resp.err = "") =>
    LET page == resp.tickets
        size == resp.req.PageSize
        n == IF size <= 0 \/ size > 100 THEN 50 ELSE size
    IN  /\ \A k \in 1..Len(page) :
             /\ page[k].Id \in DOMAIN store
             /\ page[k].CreatedAt = store[page[k].Id].created_at
             /\ page[k].UpdatedAt = store[page[k].Id].updated_at
             /\ page[k].Title = store[page[k].Id].title
        /\ \A k, l \in 1..Len(page) : k < l =>
             /\ page[k].Id # page[l].Id
             /\ page[k].CreatedAt >= page[l].CreatedAt
        /\ Len(page) = Min(n, Cardinality(DOMAIN store))
        /\ \A id \in DOMAIN store \ {page[k].Id : k \in 1..Len(page)} :
             \A k \in 1..Len(page) : store[id].created_at <= page[k].CreatedAt

W8_ListOrdering ==
  /\ resp.op = "ListTickets"
  /\ resp.err = ""
  /\ resp.req.PageSize = 1
  /\ Len(resp.tickets) = 1
  /\ \E id \in DOMAIN store : store[id].created_at < resp.tickets[1].CreatedAt

(* C9: updated_at always advances.  Every successful update that supplies a
   recognized field leaves updated_at strictly later than it was just
   before the statement. *)
C9_UpdatedAtAdvances ==
  [][\A p \in Procs :
       (UpdateStep(p) /\ resp'.err = "" /\ Supplied(p) # {}) =>
         store'[calls[p].id].updated_at > store[calls[p].id].updated_at]_vars

(* C10: created_at <= updated_at in every row, in every reachable state. *)
C10_CreatedBeforeUpdated ==
  \A id \in DOMAIN store : store[id].created_at <= store[id].updated_at

W10_CreatedBeforeUpdated ==
  /\ resp.op = "UpdateTicket"
  /\ resp.err = ""
  /\ PresentFields(resp.req) # {}
  /\ store[resp.req.Id].created_at < store[resp.req.Id].updated_at
  /\ \E q \in Procs \ {resp.proc} : calls[q].pc = "update_exec" /\ calls[q].id = resp.req.Id

StatusValues == {"OPEN", "IN_PROGRESS", "RESOLVED", "CLOSED"}

PriorityValues == {"LOW", "MEDIUM", "HIGH", "CRITICAL"}

(* C11: enum values are always valid.  In every reachable state every
   stored row has a status among OPEN, IN_PROGRESS, RESOLVED, CLOSED and a
   priority among LOW, MEDIUM, HIGH, CRITICAL, whatever enum numbers the
   CreateTicket and UpdateTicket requests carried. *)
C11_EnumValuesValid ==
  \A id \in DOMAIN store :
    /\ store[id].status \in StatusValues
    /\ store[id].priority \in PriorityValues

W11_EnumValuesValid ==
  /\ resp.op = "UpdateTicket"
  /\ resp.err = ""
  /\ resp.req.Status = "TICKET_STATUS_99"
  /\ resp.req.Priority = "TICKET_PRIORITY_99"
  /\ store[resp.req.Id].status = "OPEN"
  /\ store[resp.req.Id].priority = "MEDIUM"

(* The step is the INSERT of the create call worker p has pending. *)
CreateStep(p) == calls[p].pc = "create_exec" /\ calls'[p].pc = "idle"

(* C12: the set of stored ids changes only by a successful CreateTicket,
   which adds the one id it generated and which no row had, and by a
   DeleteTicket that answers success=true, which removes its one target.
   A failed CreateTicket, and GetTicket, ListTickets and UpdateTicket
   whether they succeed or fail, leave the set as it was.  Once
   DeleteTicket(id) has answered success=true no GetTicket(id) succeeds:
   it fails, with "ticket not found" unless the store itself fails. *)
C12_IdSetFrame ==
  [][LET ids == DOMAIN store
         after == DOMAIN store'
     IN  /\ \/ after = ids
            \/ \E p \in Procs : CreateStep(p) /\ resp'.err = ""
            \/ \E p \in Procs : DeleteStep(p) /\ resp'.success
         /\ \A p \in Procs :
              CreateStep(p) =>
                IF resp'.err = ""
                THEN calls[p].ticket.ID \notin ids /\ after = ids \cup {calls[p].ticket.ID}
                ELSE store' = store
         /\ \A p \in Procs :
              DeleteStep(p) =>
                IF resp'.success
                THEN calls[p].id \in ids /\ after = ids \ {calls[p].id}
                ELSE store' = store
         /\ resp'.op \in {"GetTicket", "ListTickets", "UpdateTicket", "Update"} => after = ids
         /\ (resp'.op = "GetTicket" /\ resp'.req.Id \in DOMAIN deleted) =>
              /\ resp'.err # ""
              /\ resp'.tickets = <<>>
              /\ resp'.err \notin StorageFailures => resp'.err = "ticket not found"]_vars

W12_GetAfterDelete ==
  /\ resp.op = "GetTicket"
  /\ resp.err = "ticket not found"
  /\ resp.req.Id \in DOMAIN deleted
  /\ resp.req.Id \in known

(* C13: NotFound is a distinct kind of failure.  When GetTicket or
   UpdateTicket fails because no row has the id, the dispatcher hands the
   repository's error on unchanged, and the kind of error the caller
   receives (its status code, not the text of its message) differs from
   the kind it receives for every failure of the store. *)
C13_NotFoundDistinct ==
  (resp.op \in {"GetTicket", "UpdateTicket"} /\ resp.err = "ticket not found") =>
    /\ resp.err = resp.logged
    /\ \A failure \in StorageFailures : StatusCode(resp.err) # StatusCode(failure)

(* The column holds a non-empty string. *)
NonEmptyText(v) == v.Valid /\ v.String # ""

(* The column holds a list of at least one tag. *)
NonEmptyTags(text) == Unmarshal(text).ok /\ GoLen(Unmarshal(text).val) > 0

(* C14: update presence rules.  The updates map of an UpdateTicket call has
   the key title, description or assignee_id exactly when that string of
   the request is not empty, status or priority exactly when it is not the
   UNSPECIFIED sentinel, and tags exactly when the list has an element.  A
   successful call leaves the column of every field whose input was empty
   as it was, so a description, assignee_id or tag list that was not empty
   is not empty afterwards. *)
C14_UpdatePresence ==
  [][\A p \in Procs :
       (UpdateStep(p) /\ calls[p].op = "UpdateTicket") =>
         LET req == calls[p].req
             keys == DOMAIN calls[p].updates
             id == calls[p].id
         IN  /\ "title" \in keys <=> req.Title # ""
             /\ "description" \in keys <=> req.Description # ""
             /\ "assignee_id" \in keys <=> req.AssigneeId # ""
             /\ "status" \in keys <=> req.Status # "TICKET_STATUS_UNSPECIFIED"
             /\ "priority" \in keys <=> req.Priority # "TICKET_PRIORITY_UNSPECIFIED"
             /\ "tags" \in keys <=> req.Tags.elems # <<>>
             /\ keys \subseteq Recognized
             /\ resp'.err = "" =>
                  /\ req.Title = "" => store'[id].title = store[id].title
                  /\ req.Description = "" => store'[id].description = store[id].description
                  /\ req.AssigneeId = "" => store'[id].assignee_id = store[id].assignee_id
                  /\ req.Tags.elems = <<>> => store'[id].tags = store[id].tags
                  /\ req.Status = "TICKET_STATUS_UNSPECIFIED" => store'[id].status = store[id].status
                  /\ req.Priority = "TICKET_PRIORITY_UNSPECIFIED" =>
                       store'[id].priority = store[id].priority
                  /\ NonEmptyText(store[id].description) => NonEmptyText(store'[id].description)
                  /\ NonEmptyText(store[id].assignee_id) => NonEmptyText(store'[id].assignee_id)
                  /\ NonEmptyTags(store[id].tags) => NonEmptyTags(store'[id].tags)]_vars

W14_UpdatePresence ==
  /\ resp.op = "UpdateTicket"
  /\ resp.err = ""
  /\ resp.req.Title # ""
  /\ resp.req.Description = ""
  /\ resp.req.AssigneeId = ""
  /\ resp.req.Tags.elems = <<>>
  /\ store[resp.req.Id].title = resp.req.Title
  /\ NonEmptyText(store[resp.req.Id].description)
  /\ NonEmptyText(store[resp.req.Id].assignee_id)
  /\ NonEmptyTags(store[resp.req.Id].tags)

(* The recognized keys of a map in the order the loop met them. *)
Included(order) ==
  LET IsRecognized(f) == f \in {"title", "description", "status", "priority", "assignee_id", "tags"}
  IN  SelectSeq(order, IsRecognized)

(* C15: parameter indexes of the dynamic SET clause.  For every map with at
   least one recognized key and every order of its keys, with n recognized
   keys the k-th of them in that order is assigned from $k and the k-th
   argument is the value the map holds for it (for tags its JSON text),
   updated_at is assigned from $(n+1), the WHERE clause compares id with
   $(n+2), and the arguments are exactly those n values, the time read and
   the id: a key that is not recognized takes no parameter. *)
C15_ParameterIndexes ==
  (resp.op = "Build" /\ Included(resp.order) # <<>>) =>
    LET stmt == resp.stmt
        fields == Included(resp.order)
        n == Len(fields)
        updates == resp.req.updates
    IN  /\ ~stmt.empty
        /\ Len(stmt.setParts) = n + 1
        /\ Len(stmt.args) = n + 2
        /\ \A k \in 1..n :
             /\ stmt.setParts[k] = [col |-> fields[k], idx |-> k]
             /\ IF fields[k] = "tags"
                THEN stmt.args[k] = Marshal(updates["tags"])
                ELSE stmt.args[k] = updates[fields[k]]
        /\ stmt.setParts[n + 1] = [col |-> "updated_at", idx |-> n + 1]
        /\ stmt.args[n + 1] = resp.now
        /\ stmt.whereIdx = n + 2
        /\ stmt.args[n + 2] = resp.req.Id

W15_ParameterIndexes ==
  /\ resp.op = "Build"
  /\ Len(resp.order) = 7
  /\ resp.order[1] = "reporter_id"
  /\ resp.order[2] = "tags"
  /\ resp.order[7] = "title"
  /\ resp.stmt.whereIdx = 8

(* What the column of field f holds once value v has been written to it. *)
Written(f, v) == IF f = "tags" THEN JsonbText(Marshal(v)) ELSE ColumnValue(f, v)

(* The wire form of the row id has in store st. *)
RowOnWire(st, id) == <<dbTicketToProto(ScanTicket(id, st[id]).ticket)>>

(* C16: concurrent updates are last-writer-wins per field and lose no
   write.  Every successful UpdateTicket answers with the row as its own
   statement left it.  When worker p's statement succeeds right after the
   statement of another worker's UpdateTicket on the same id succeeded, p's
   call having been pending meanwhile, then afterwards every field p
   supplied holds p's value, whether or not the other call supplied it
   too, every field only the other call supplied holds that call's value,
   every other field but updated_at is as it was, and the other call's
   answer was the row as it stood between the two statements. *)
C16_LastWriterWins ==
  [][\A p \in Procs :
       (UpdateStep(p) /\ calls[p].op = "UpdateTicket" /\ resp'.err = "") =>
         LET id == calls[p].id
             mine == calls[p].updates
         IN  /\ resp'.tickets = RowOnWire(store', id)
             /\ \A f \in DOMAIN mine : store'[id][f] = Written(f, mine[f])
             /\ (resp.op = "UpdateTicket" /\ resp.err = "" /\ resp.proc # p /\ resp.req.Id = id) =>
                  LET theirs == BuildUpdates(resp.req)
                  IN  /\ resp.tickets = RowOnWire(store, id)
                      /\ \A f \in Columns \ {"updated_at"} :
                           store'[id][f] =
                             IF f \in DOMAIN mine THEN Written(f, mine[f])
                             ELSE IF f \in DOMAIN theirs THEN Written(f, theirs[f])
                             ELSE store[id][f]]_vars

W16_LastWriterWins ==
  /\ resp.op = "UpdateTicket"
  /\ resp.err = ""
  /\ resp.proc = "w2"
  /\ resp.req.Title = "tB"
  /\ store[1].title = "tB"
  /\ store[1].description = ValidString("dA")
  /\ store[1].priority = "LOW"
  /\ store[1].updated_at = 1
  /\ clock = 3

====
